---- MODULE Spec2Model ----
(***************************************************************************)
(* Containor: an ordered key-value container built on the native Map, and  *)
(* ContainorArray: the Array subclass its keys()/values()/entries()        *)
(* return.  The container is modelled as the Map's entry list (insertion   *)
(* order); every method is an operator translated from its source, and     *)
(* every public call is one action that records the call (op, arg), the    *)
(* receiver before the call (pre) and what the call returned (ret).        *)
(***************************************************************************)
EXTENDS Integers, Sequences, FiniteSets, TLC

VARIABLES containor, array, op, arg, pre, ret

vars == <<containor, array, op, arg, pre, ret>>

(***************************************************************************)
(* Bounds of the model.                                                    *)
(***************************************************************************)
\* largest number of entries a container of the model holds
MaxSize == 3
\* largest number of pairs in a splice's items or in an addMap source
MaxItems == 2
\* largest number of literal keys passed to one delete call
MaxDeleteArgs == 2
\* largest number of elements of a ContainorArray of the model
MaxLen == 4
\* largest chunk size
MaxChunk == 3

(***************************************************************************)
(* JavaScript values.  t is the value's kind, s its text (strings), n its  *)
(* number (numbers).  Empty is the hole of a sparse array.                 *)
(***************************************************************************)
Str(x) == [t |-> "string", s |-> x, n |-> 0]
Num(i) == [t |-> "number", s |-> "", n |-> i]
Bool(b) == [t |-> "boolean", s |-> IF b THEN "true" ELSE "false", n |-> 0]
Undefined == [t |-> "undefined", s |-> "", n |-> 0]
Null == [t |-> "null", s |-> "", n |-> 0]
Empty == [t |-> "empty", s |-> "", n |-> 0]

\* a mapping-like argument: a Map, an array of pairs or a plain object
Mapping(kind, entries) == [t |-> kind, e |-> entries]

isString(v) == v.t = "string"
isNumber(v) == v.t = "number"
isUndefined(v) == v.t = "undefined"
isNull(v) == v.t = "null"
isArray(v) == v.t = "array"
isPlainObject(v) == v.t = "object"
isMap(v) == v.t = "map"

\* a ?? b
Nullish(a, b) == IF isUndefined(a) \/ isNull(a) THEN b ELSE a

(***************************************************************************)
(* The native Map the container extends (super): a sequence of <<key,      *)
(* value>> pairs with distinct keys, in insertion order.                   *)
(***************************************************************************)
MapIndex(m, k) ==
    IF \E i \in 1..Len(m) : m[i][1] = k
    THEN CHOOSE i \in 1..Len(m) : m[i][1] = k
    ELSE 0

MapHas(m, k) == MapIndex(m, k) # 0

MapGet(m, k) == IF MapHas(m, k) THEN m[MapIndex(m, k)][2] ELSE Undefined

\* an existing key keeps its position and takes the new value
MapSet(m, k, v) ==
    IF MapHas(m, k)
    THEN [m EXCEPT ![MapIndex(m, k)] = <<k, v>>]
    ELSE Append(m, <<k, v>>)

MapDelete(m, k) ==
    IF MapHas(m, k)
    THEN SubSeq(m, 1, MapIndex(m, k) - 1) \o SubSeq(m, MapIndex(m, k) + 1, Len(m))
    ELSE m

MapKeys(m) == [i \in 1..Len(m) |-> m[i][1]]
MapValues(m) == [i \in 1..Len(m) |-> m[i][2]]

\* super.clear() followed by super.set(k, v) for every pair of entries
RECURSIVE MapFromEntries(_)
MapFromEntries(entries) ==
    IF entries = <<>> THEN <<>>
    ELSE MapSet(MapFromEntries(SubSeq(entries, 1, Len(entries) - 1)),
                entries[Len(entries)][1], entries[Len(entries)][2])

Min(a, b) == IF a < b THEN a ELSE b
Max(a, b) == IF a > b THEN a ELSE b

(***************************************************************************)
(* ContainorArray                                                          *)
(***************************************************************************)
\* new ContainorArray(...v) is super(...v), the Array constructor: one
\* numeric argument is a length (a sparse array of that many holes, or a
\* RangeError when it is not a valid length), anything else the elements.
ContainorArrayNew(v) ==
    IF Len(v) = 1 /\ isNumber(v[1])
    THEN IF v[1].n >= 0
         THEN [a |-> [i \in 1..v[1].n |-> Empty], threw |-> FALSE]
         ELSE [a |-> <<>>, threw |-> TRUE]
    ELSE [a |-> v, threw |-> FALSE]

\* static from(items): Array.from(items), then new ContainorArray(...result)
ContainorArrayFrom(items) == ContainorArrayNew(items)

\* chunk(size): Array.from({ length: Math.ceil(this.length / size) }, fn)
\* with fn making chunk i from this.slice(i * size, i * size + size), each
\* chunk and their list going through ContainorArray.from; a throw of an
\* inner from ends the call.
chunk(a, size) ==
    LET count == (Len(a) + size - 1) \div size
        parts == [i \in 1..count |->
                    ContainorArrayFrom(SubSeq(a, (i - 1) * size + 1,
                                              Min((i - 1) * size + size, Len(a))))]
        result == ContainorArrayFrom([i \in 1..count |->
                                        [t |-> "array", e |-> parts[i].a]])
        threw == result.threw \/ \E i \in 1..count : parts[i].threw
    IN  [a |-> IF threw THEN <<>> ELSE result.a, threw |-> threw]

\* the loop of removeDuplicates: an item is pushed when it is in ignore or
\* was not seen before
RECURSIVE removeDuplicatesLoop(_, _, _, _, _)
removeDuplicatesLoop(out, seen, arrayDefault, i, ignore) ==
    IF i > Len(arrayDefault) THEN out
    ELSE LET item == arrayDefault[i]
             isIgnored == \E j \in 1..Len(ignore) : ignore[j] = item
         IN  IF isIgnored \/ item \notin seen
             THEN removeDuplicatesLoop(Append(out, item), seen \cup {item},
                                       arrayDefault, i + 1, ignore)
             ELSE removeDuplicatesLoop(out, seen, arrayDefault, i + 1, ignore)

\* removeDuplicates(arrayDefault = [], ...ignore): source.kind says what
\* was passed as arrayDefault: "none" (the default, an empty array), "this"
\* (the receiver, which this.length = 0 empties before the loop reads it)
\* or "array" (another array, source.a).  The result is the receiver
\* afterwards.
removeDuplicates(a, source, ignore) ==
    IF Len(a) <= 1 THEN a
    ELSE removeDuplicatesLoop(<<>>, {},
                              IF source.kind = "array" THEN source.a ELSE <<>>,
                              1, ignore)

\* this.filter(pred): the elements at the 0-based positions that satisfy
\* keep, in order; Array.prototype.filter passes over holes
RECURSIVE ArrayFilterIndex(_, _, _)
ArrayFilterIndex(a, i, removed) ==
    IF i > Len(a) THEN <<>>
    ELSE IF (i - 1) \in removed \/ a[i] = Empty
         THEN ArrayFilterIndex(a, i + 1, removed)
         ELSE <<a[i]>> \o ArrayFilterIndex(a, i + 1, removed)

\* a deleteAt that removes index after index and stops at the first one
\* that is out of bounds
RECURSIVE deleteAtEager(_, _)
deleteAtEager(a, removeArr) ==
    IF removeArr = <<>> THEN [a |-> a, threw |-> FALSE]
    ELSE IF removeArr[1] < 0 \/ removeArr[1] >= Len(a)
         THEN [a |-> a, threw |-> TRUE]
         ELSE deleteAtEager(ArrayFilterIndex(a, 1, {removeArr[1]}), Tail(removeArr))

\* deleteAt(...removeArr): the result is the receiver afterwards and
\* whether the call threw
deleteAt(a, removeArr) ==
    LET uniqueIndices == {removeArr[i] : i \in 1..Len(removeArr)}
    IN  IF Len(removeArr) = 0 THEN [a |-> a, threw |-> FALSE]
        ELSE IF \E index \in uniqueIndices : index < 0 \/ index >= Len(a)
             THEN [a |-> a, threw |-> TRUE]
             ELSE [a |-> ArrayFilterIndex(a, 1, uniqueIndices), threw |-> FALSE]

\* clone(): ContainorArray.from(this)
arrayClone(a) == ContainorArrayFrom(a)

\* the mapFn of random, called maxItems times by Array.from: call i takes
\* the element at index picks[i] of what is left of the clone (a hole reads
\* as undefined) and splices it out
RECURSIVE arrayRandomLoop(_, _, _, _, _)
arrayRandomLoop(out, left, i, maxItems, picks) ==
    IF i > maxItems THEN out
    ELSE LET randomItem == IF left[picks[i]] = Empty THEN Undefined
                           ELSE left[picks[i]]
         IN  arrayRandomLoop(Append(out, randomItem),
                             SubSeq(left, 1, picks[i] - 1)
                             \o SubSeq(left, picks[i] + 1, Len(left)),
                             i + 1, maxItems, picks)

\* the number of random choices random(quantity) makes on a: 0 when the
\* call throws before it chooses
arrayRandomItems(a, quantity) ==
    LET n == IF isUndefined(quantity) THEN Num(1) ELSE quantity
    IN  IF ~isNumber(n) \/ n.n < 1 \/ arrayClone(a).threw THEN 0
        ELSE Min(n.n, Len(arrayClone(a).a))

\* random(quantity = 1): picks are the outcomes of
\* Math.floor(Math.random() * array.length), counted from 1.  The result is
\* the array returned and whether the call threw.
arrayRandom(a, quantity, picks) ==
    LET n == IF isUndefined(quantity) THEN Num(1) ELSE quantity
        copy == arrayClone(a)
        result == ContainorArrayFrom(
                      arrayRandomLoop(<<>>, copy.a, 1,
                                      arrayRandomItems(a, quantity), picks))
    IN  IF ~isNumber(n) \/ n.n < 1 \/ copy.threw \/ result.threw
        THEN [a |-> <<>>, threw |-> TRUE]
        ELSE [a |-> result.a, threw |-> FALSE]

(***************************************************************************)
(* Containor: get, has, set, addMap                                        *)
(***************************************************************************)
length(c) == Len(c)

\* get(search): super.get(search) ?? null
get(c, search) == Nullish(MapGet(c, search), Null)

\* has(key) with one key
has(c, key) == MapHas(c, key)

\* The reducers the model passes to addMap, as (incoming, existing) => ...
\*   "none"      no function: addMap uses (v) => v
\*   "nullish"   (v, old) => old ?? v
\*   "ifUndef"   (v, old) => old === undefined ? v : old
Reducers == {"none", "nullish", "ifUndef"}

Reduce(func, incoming, existing) ==
    CASE func = "none" -> incoming
      [] func = "nullish" -> Nullish(existing, incoming)
      [] func = "ifUndef" -> IF isUndefined(existing) THEN incoming ELSE existing

RECURSIVE set(_, _, _), addMap(_, _, _), addMapLoop(_, _, _, _)

\* a set that does not reject an undefined key
setUnchecked(c, key, value) ==
    IF ~isString(key) /\ ~isNumber(key) /\ isUndefined(value)
    THEN addMap(c, key, "none")
    ELSE [c |-> MapSet(c, key, value), threw |-> FALSE]

\* set(key, value): the result is the receiver afterwards and whether the
\* call threw.
set(c, key, value) ==
    IF isUndefined(key) THEN [c |-> c, threw |-> TRUE]
    ELSE IF ~isString(key) /\ ~isNumber(key) /\ isUndefined(value)
         THEN addMap(c, key, "none")
         ELSE [c |-> MapSet(c, key, value), threw |-> FALSE]

\* the three loops of addMap: this.set(key, transform(value, this.get(key)))
\* for every entry, an array skipping what is not a pair; a throw of set
\* ends the loop with the entries set so far in place.
addMapLoop(r, m, i, func) ==
    IF r.threw \/ i > Len(m.e) THEN r
    ELSE IF isArray(m) /\ Len(m.e[i]) < 2
         THEN addMapLoop(r, m, i + 1, func)
         ELSE addMapLoop(set(r.c, m.e[i][1],
                             Reduce(func, m.e[i][2], get(r.c, m.e[i][1]))),
                         m, i + 1, func)

addMap(c, mapCombine, func) ==
    IF isMap(mapCombine) \/ isArray(mapCombine) \/ isPlainObject(mapCombine)
    THEN addMapLoop([c |-> c, threw |-> FALSE], mapCombine, 1, func)
    ELSE [c |-> c, threw |-> FALSE]

\* keys(), values(), entries() without a transform
keys(c) == ContainorArrayFrom(MapKeys(c))
values(c) == ContainorArrayFrom(MapValues(c))
entries(c) == ContainorArrayFrom([i \in 1..Len(c) |-> [t |-> "array", e |-> c[i]]])

(***************************************************************************)
(* Containor.from without a mapFn, for an array source whose elements are  *)
(* all arrays, for a Map or Containor source and for a plain object.       *)
(***************************************************************************)
\* a plain object that has a 'key' and a 'value' property
isKeyValueObject(v) == v.t = "keyvalue"

RECURSIVE fromLoop(_, _, _)
fromLoop(r, source, i) ==
    IF r.threw \/ i > Len(source.e) THEN r
    ELSE LET key == source.e[i][1]
             value == source.e[i][2]
         IN  fromLoop(IF isArray(source) /\ isKeyValueObject(value)
                      THEN set(r.c, value.key, value.value)
                      ELSE set(r.c, key, value),
                      source, i + 1)

\* the branch for a plain object with a numeric length and no mapFn (lines
\* 758-766): value is i, so every i below length is set to i
RECURSIVE fromLength(_, _, _)
fromLength(r, len, i) ==
    IF r.threw \/ i >= len THEN r
    ELSE fromLength(set(r.c, Num(i), Num(i)), len, i + 1)

ContainorFrom(source) ==
    IF isUndefined(source) \/ isNull(source) THEN [c |-> <<>>, threw |-> FALSE]
    ELSE IF isPlainObject(source) /\ isNumber(MapGet(source.e, Str("length")))
         THEN fromLength([c |-> <<>>, threw |-> FALSE],
                         MapGet(source.e, Str("length")).n, 0)
         ELSE fromLoop([c |-> <<>>, threw |-> FALSE], source, 1)

(***************************************************************************)
(* delete(...keys) with literal keys                                       *)
(***************************************************************************)
RECURSIVE deleteLoop(_, _, _)
deleteLoop(r, args, i) ==
    IF i > Len(args) THEN r
    ELSE deleteLoop(IF has(r.c, args[i])
                    THEN [c |-> MapDelete(r.c, args[i]), deleted |-> r.deleted + 1]
                    ELSE r,
                    args, i + 1)

\* the result is the receiver afterwards and the value returned
delete(c, args) ==
    IF Len(args) = 1
    THEN [c |-> MapDelete(c, args[1]), ret |-> Bool(MapHas(c, args[1]))]
    ELSE LET r == deleteLoop([c |-> c, deleted |-> 0], args, 1)
         IN  [c |-> r.c, ret |-> Num(r.deleted)]

(***************************************************************************)
(* sort(func)                                                              *)
(***************************************************************************)
\* the rank of String(key) among the strings of the model's keys:
\* "2" < "a" < "true"
KeyRank(k) ==
    CASE isNumber(k) -> 0
      [] isString(k) -> 1
      [] OTHER -> 2

\* The comparators the model passes to sort, as (a, b, keyA, keyB) => ...
\*   "byValue"    (a, b) => (a ?? 0) - (b ?? 0)
\*   "byKey"      (a, b, ka, kb) => String(ka) < String(kb) ? -1 : ka === kb ? 0 : 1
\*   "byKeyDesc"  the reverse of byKey
\*   "byKind"     (a, b, ka, kb) => (typeof ka === 'string') - (typeof kb === 'string')
Comparators == {"byValue", "byKey", "byKeyDesc", "byKind"}

ValueRank(v) == IF isNumber(v) THEN v.n ELSE 0

Compare(func, a, b) ==
    CASE func = "byValue" -> ValueRank(a[2]) - ValueRank(b[2])
      [] func = "byKey" -> KeyRank(a[1]) - KeyRank(b[1])
      [] func = "byKeyDesc" -> KeyRank(b[1]) - KeyRank(a[1])
      [] func = "byKind" -> (IF isString(a[1]) THEN 1 ELSE 0)
                            - (IF isString(b[1]) THEN 1 ELSE 0)

\* an unstable sort: an element goes before the elements already placed
\* that compare equal to it
RECURSIVE InsertSortedUnstable(_, _, _)
InsertSortedUnstable(sorted, x, func) ==
    IF sorted = <<>> THEN <<x>>
    ELSE IF Compare(func, sorted[Len(sorted)], x) >= 0
         THEN Append(InsertSortedUnstable(SubSeq(sorted, 1, Len(sorted) - 1), x, func),
                     sorted[Len(sorted)])
         ELSE Append(sorted, x)

\* Array.prototype.sort is a stable sort: an element goes after every
\* element already placed that does not compare greater than it.
RECURSIVE InsertSorted(_, _, _)
InsertSorted(sorted, x, func) ==
    IF sorted = <<>> THEN <<x>>
    ELSE IF Compare(func, sorted[Len(sorted)], x) > 0
         THEN Append(InsertSorted(SubSeq(sorted, 1, Len(sorted) - 1), x, func),
                     sorted[Len(sorted)])
         ELSE Append(sorted, x)

RECURSIVE ArraySort(_, _)
ArraySort(a, func) ==
    IF a = <<>> THEN <<>>
    ELSE InsertSorted(ArraySort(SubSeq(a, 1, Len(a) - 1), func), a[Len(a)], func)

\* a sort that keeps one entry of those that compare equal
RECURSIVE DropTies(_, _, _)
DropTies(sorted, i, func) ==
    IF i > Len(sorted) THEN <<>>
    ELSE (IF i > 1 /\ Compare(func, sorted[i - 1], sorted[i]) = 0
          THEN <<>> ELSE <<sorted[i]>>) \o DropTies(sorted, i + 1, func)

sortDroppingTies(c, func) == MapFromEntries(DropTies(ArraySort(c, func), 1, func))

\* sort(func): the entries of the receiver afterwards; the call returns this
sort(c, func) == MapFromEntries(ArraySort(c, func))

\* what the calls of func find in the receiver: entries.sort works on the
\* array [...super.entries()], and the Map is cleared and refilled only when
\* it is done, so that every call finds the entries of before the call.
\* There is a call when there are two entries or more to compare.
sortSeen(c, func) == IF Len(c) >= 2 THEN {c} ELSE {}

(***************************************************************************)
(* splice(start, deleteCount, ...items)                                    *)
(***************************************************************************)
\* the start index after the four adjustments of lines 401-404
spliceStart(c, start) ==
    LET s0 == IF isNumber(start) THEN start.n ELSE 0
        s1 == IF s0 < 0 THEN Len(c) + s0 ELSE s0
        s2 == IF s1 < 0 THEN 0 ELSE s1
    IN  IF s2 > Len(c) THEN Len(c) ELSE s2

\* the number of entries Array.prototype.splice removes: deleteCount as
\* adjusted at lines 405-406, clamped by the array into [0, length - start]
spliceCount(c, start, deleteCount) ==
    LET s == spliceStart(c, start)
        dc == IF isUndefined(deleteCount) \/ deleteCount.n > Len(c) - s
              THEN Len(c) - s
              ELSE deleteCount.n
    IN  Min(Max(dc, 0), Len(c) - s)

\* a splice that rebuilds the receiver with this.set instead of super.set
spliceWithSet(c, start, deleteCount, items) ==
    LET s == spliceStart(c, start)
        n == spliceCount(c, start, deleteCount)
        removedEntries == SubSeq(c, s + 1, s + n)
        rest == SubSeq(c, 1, s) \o items \o SubSeq(c, s + n + 1, Len(c))
        from == ContainorFrom([t |-> "array", e |-> removedEntries])
    IN  [c |-> ContainorFrom([t |-> "map", e |-> rest]).c, ret |-> from.c,
         threw |-> from.threw]

\* An item that is no array and cannot be destructured (a number, null, a
\* plain object) is the sequence of that one value; a pair has two elements.
NotIterable(v) == <<v>>

\* the index of the first entry that cannot be destructured, 0 if none
RECURSIVE FirstNotIterable(_, _)
FirstNotIterable(items, i) ==
    IF i > Len(items) THEN 0
    ELSE IF Len(items[i]) # 2 THEN i
         ELSE FirstNotIterable(items, i + 1)

\* the result is the receiver afterwards, the container returned and
\* whether the call threw.  After super.clear() the loop
\* for (const [key, value] of entries) super.set(key, value) throws a
\* TypeError at the first entry it cannot destructure, with the entries
\* before it set.
splice(c, start, deleteCount, items) ==
    LET s == spliceStart(c, start)
        n == spliceCount(c, start, deleteCount)
        removedEntries == SubSeq(c, s + 1, s + n)
        rest == SubSeq(c, 1, s) \o items \o SubSeq(c, s + n + 1, Len(c))
        bad == FirstNotIterable(rest, 1)
        from == ContainorFrom([t |-> "array", e |-> removedEntries])
    IN  IF bad # 0
        THEN [c |-> MapFromEntries(SubSeq(rest, 1, bad - 1)), ret |-> <<>>,
              threw |-> TRUE]
        ELSE [c |-> MapFromEntries(rest), ret |-> from.c, threw |-> from.threw]

(***************************************************************************)
(* filter(func)                                                            *)
(***************************************************************************)
\* The predicates the model passes to filter, as (value, key) => ...
\*   "always"     () => true
\*   "undefined"  (v) => v === undefined
\*   "stringKey"  (v, k) => typeof k === 'string'
Predicates == {"always", "undefined", "stringKey"}

Test(func, value, key) ==
    CASE func = "always" -> TRUE
      [] func = "undefined" -> isUndefined(value)
      [] func = "stringKey" -> isString(key)

RECURSIVE filterLoop(_, _, _, _)
filterLoop(results, c, i, func) ==
    IF results.threw \/ i > Len(c) THEN results
    ELSE filterLoop(IF Test(func, c[i][2], c[i][1])
                    THEN set(results.c, c[i][1], c[i][2])
                    ELSE results,
                    c, i + 1, func)

filter(c, func) == filterLoop([c |-> <<>>, threw |-> FALSE], c, 1, func)

(***************************************************************************)
(* partition(func)                                                         *)
(***************************************************************************)
\* results is new ContainorArray(new Containor(), new Containor()): the
\* matches go to results[0] and the others to results[1], both with set
RECURSIVE partitionLoop(_, _, _, _)
partitionLoop(results, c, i, func) ==
    IF results.threw \/ i > Len(c) THEN results
    ELSE LET hit == Test(func, c[i][2], c[i][1])
             r == set(IF hit THEN results.a[1] ELSE results.a[2], c[i][1], c[i][2])
         IN  partitionLoop([a |-> IF hit THEN <<r.c, results.a[2]>>
                                  ELSE <<results.a[1], r.c>>,
                            threw |-> r.threw],
                           c, i + 1, func)

partition(c, func) ==
    partitionLoop([a |-> << <<>>, <<>> >>, threw |-> FALSE], c, 1, func)

(***************************************************************************)
(* first(amount), last(amount)                                             *)
(***************************************************************************)
\* a { key, value } object
KeyValue(k, v) == [t |-> "keyvalue", key |-> k, value |-> v]

\* a Containor instance as a returned value
Instance(c) == [t |-> "containor", c |-> c]

\* amount after lines 76-77 (127-128): 1 unless a positive number, and at
\* most the size
firstAmount(c, amount) ==
    Min(Len(c), IF ~isNumber(amount) \/ amount.n <= 0 THEN 1 ELSE amount.n)

\* the result is the value returned and whether the call threw
first(c, amount) ==
    LET n == firstAmount(c, amount)
        selected == SubSeq(c, 1, n)
        from == ContainorFrom(Mapping("array", selected))
    IN  IF n <= 1
        THEN [ret |-> IF n = 1 THEN KeyValue(selected[1][1], selected[1][2])
                      ELSE Undefined,
              threw |-> FALSE]
        ELSE [ret |-> Instance(from.c), threw |-> from.threw]

last(c, amount) ==
    LET n == firstAmount(c, amount)
        selected == SubSeq(c, Len(c) - n + 1, Len(c))
        from == ContainorFrom(Mapping("array", selected))
    IN  IF n <= 1
        THEN [ret |-> IF n = 1 THEN KeyValue(selected[1][1], selected[1][2])
                      ELSE Undefined,
              threw |-> FALSE]
        ELSE [ret |-> Instance(from.c), threw |-> from.threw]

(***************************************************************************)
(* toJSON()                                                                *)
(***************************************************************************)
\* the property name obj[k] uses for a key k: String(k)
PropertyName(k) ==
    CASE isString(k) -> k
      [] isNumber(k) -> Str(ToString(k.n))
      [] isNull(k) -> Str("null")
      [] OTHER -> Str(k.s)

\* the largest array index among the property names of the model: its
\* numeric keys are at most MaxSize
MaxIndex == MaxSize

\* the array index a property name is, or -1
IndexOf(name) ==
    IF \E i \in 0..MaxIndex : name = Str(ToString(i))
    THEN CHOOSE i \in 0..MaxIndex : name = Str(ToString(i))
    ELSE 0 - 1

\* the own properties of an object in the order Object.entries lists them:
\* array indices ascending, then the other names as they were created
RECURSIVE IndexProperties(_, _)
IndexProperties(e, i) ==
    IF i > MaxIndex THEN <<>>
    ELSE LET isI(p) == IndexOf(p[1]) = i
         IN  SelectSeq(e, isI) \o IndexProperties(e, i + 1)

ObjectEntries(e) ==
    LET named(p) == IndexOf(p[1]) = 0 - 1
    IN  IndexProperties(e, 0) \o SelectSeq(e, named)

RECURSIVE toJSONLoop(_, _, _)
toJSONLoop(obj, c, i) ==
    IF i > Len(c) THEN obj
    ELSE toJSONLoop(MapSet(obj, PropertyName(c[i][1]), c[i][2]), c, i + 1)

toJSON(c) == Mapping("object", ObjectEntries(toJSONLoop(<<>>, c, 1)))

(***************************************************************************)
(* delete(func) with a single predicate                                    *)
(***************************************************************************)
\* The predicates the model passes to delete, as
\* (value, key, containor, deleted) => ...
\*   "noneYet"      (v, k, c, deleted) => deleted === 0
\*   "afterFirst"   (v, k, c, deleted) => deleted > 0 || v === undefined
\* and the predicates of filter, which do not look at deleted.
DeletePredicates == Predicates \cup {"noneYet", "afterFirst"}

TestDelete(func, value, key, deleted) ==
    CASE func = "noneYet" -> deleted = 0
      [] func = "afterFirst" -> deleted > 0 \/ isUndefined(value)
      [] OTHER -> Test(func, value, key)

\* a loop that steps over the entry that follows a deleted one, as a loop
\* by index over an array that shrinks would
RECURSIVE deleteFuncLoopSkipping(_, _, _)
deleteFuncLoopSkipping(r, i, func) ==
    IF i > Len(r.c) THEN r
    ELSE LET key == r.c[i][1]
             value == r.c[i][2]
             called == Append(r.calls, <<key, value, r.deleted>>)
             shown == Append(r.seen, r.c)
         IN  IF TestDelete(func, value, key, r.deleted)
             THEN deleteFuncLoopSkipping([c |-> MapDelete(r.c, key),
                                          deleted |-> r.deleted + 1,
                                          calls |-> called,
                                          seen |-> shown], i + 1, func)
             ELSE deleteFuncLoopSkipping([r EXCEPT !.calls = called,
                                                   !.seen = shown], i + 1, func)

\* a loop over a snapshot of the entries: func is called for every entry
\* while the receiver is still whole, and the entries it chose are deleted
\* when the pass is over
RECURSIVE deleteFuncLoopSnapshot(_, _, _)
deleteFuncLoopSnapshot(r, i, func) ==
    IF i > Len(r.c)
    THEN LET chosen == {j \in 1..Len(r.c) :
                           TestDelete(func, r.c[j][2], r.c[j][1], r.calls[j][3])}
             RECURSIVE Keep(_)
             Keep(j) == IF j > Len(r.c) THEN <<>>
                        ELSE (IF j \in chosen THEN <<>> ELSE <<r.c[j]>>) \o Keep(j + 1)
         IN  [r EXCEPT !.c = Keep(1)]
    ELSE LET key == r.c[i][1]
             value == r.c[i][2]
             called == Append(r.calls, <<key, value, r.deleted>>)
             shown == Append(r.seen, r.c)
         IN  deleteFuncLoopSnapshot(
                 [r EXCEPT !.calls = called, !.seen = shown,
                           !.deleted = IF TestDelete(func, value, key, r.deleted)
                                       THEN r.deleted + 1 ELSE r.deleted],
                 i + 1, func)

\* for (const [key, value] of super.entries()) over the live Map: after
\* super.delete(key) of the entry it is at, the iterator goes on with the
\* entry that followed it, which is now at the same index.  calls lists the
\* (key, value, deleted) of every call of func, seen the entries of the
\* receiver (the third argument of func) at each call.
RECURSIVE deleteFuncLoop(_, _, _)
deleteFuncLoop(r, i, func) ==
    IF i > Len(r.c) THEN r
    ELSE LET key == r.c[i][1]
             value == r.c[i][2]
             called == Append(r.calls, <<key, value, r.deleted>>)
             shown == Append(r.seen, r.c)
         IN  IF TestDelete(func, value, key, r.deleted)
             THEN deleteFuncLoop([c |-> MapDelete(r.c, key),
                                  deleted |-> r.deleted + 1,
                                  calls |-> called,
                                  seen |-> shown], i, func)
             ELSE deleteFuncLoop([r EXCEPT !.calls = called,
                                           !.seen = shown], i + 1, func)

\* the result is the receiver afterwards, the value returned, the calls of
\* func and what each call found in the receiver
deleteFunc(c, func) ==
    LET r == deleteFuncLoop([c |-> c, deleted |-> 0, calls |-> <<>>,
                             seen |-> <<>>], 1, func)
    IN  [c |-> r.c, ret |-> Num(r.deleted), calls |-> r.calls, seen |-> r.seen]

(***************************************************************************)
(* The passes over the live Map: for (const [key, value] of                *)
(* super.entries()) in forEach, find, filter, partition, some, every and   *)
(* delete(func), with a callback that changes the receiver.                *)
(***************************************************************************)
Passes == {"forEach", "find", "filter", "partition", "some", "every", "delete"}

\* The callbacks the model passes, as (value, key, containor) => ...
\*   "read"      nothing
\*   "insert"    containor.set(true, 1)
\*   "reinsert"  containor.delete(key); containor.set(key, 1)
\* each followed by return result.
Callbacks == [effect : {"read", "insert", "reinsert"}, result : BOOLEAN]

\* one call of func: the entries of the receiver afterwards, and whether
\* the entry the iterator is at was deleted
Call(func, c, key) ==
    CASE func.effect = "read" -> [c |-> c, removed |-> FALSE]
      [] func.effect = "insert" ->
            [c |-> set(c, Bool(TRUE), Num(1)).c, removed |-> FALSE]
      [] func.effect = "reinsert" ->
            [c |-> set(MapDelete(c, key), key, Num(1)).c, removed |-> TRUE]

\* whether the result of func ends the pass before the iterator is done:
\* find and some return at the first true, every at the first false
passStops(method, result) ==
    CASE method \in {"find", "some"} -> result
      [] method = "every" -> ~result
      [] OTHER -> FALSE

\* an iteration by index, which goes one position further whatever happened
\* to the entry it was at
passNextByIndex(position, removed) == position + 1

\* the Map iterator goes on with the entry that follows the one it was at:
\* when that one was deleted the follower has taken its position, and a key
\* set again after its deletion is a new entry at the end, still to come
passNext(position, removed) == IF removed THEN position ELSE position + 1

(***************************************************************************)
(* ensure(key, valueGenerator)                                             *)
(***************************************************************************)
\* The generators the model passes to ensure, as (key, containor) => ...
\*   "one"          () => 1
\*   "undefined"    () => undefined
\*   "notFunction"  a value that is no function
Generators == {"one", "undefined", "notFunction"}

Generate(gen, key) == IF gen = "one" THEN Num(1) ELSE Undefined

\* the result is the receiver afterwards, the value returned, whether the
\* call threw and the number of calls of the generator
ensure(c, key, gen) ==
    IF has(c, key)
    THEN [c |-> c, ret |-> get(c, key), threw |-> FALSE, calls |-> 0]
    ELSE IF gen = "notFunction"
         THEN [c |-> c, ret |-> Undefined, threw |-> TRUE, calls |-> 0]
         ELSE LET r == set(c, key, Generate(gen, key))
              IN  [c |-> r.c, ret |-> get(r.c, key), threw |-> r.threw, calls |-> 1]

(***************************************************************************)
(* random(amount)                                                          *)
(***************************************************************************)
\* a value that counts as true in value?.value || value
Truthy(v) ==
    CASE isNumber(v) -> v.n # 0
      [] isString(v) -> v.s # ""
      [] v.t = "boolean" -> v = Bool(TRUE)
      [] isUndefined(v) \/ isNull(v) -> FALSE
      [] OTHER -> TRUE

RemoveAt(a, i) == SubSeq(a, 1, i - 1) \o SubSeq(a, i + 1, Len(a))

\* Containor.from({ length }, mapFn) with the mapFn of random (lines
\* 759-764 and 213-217): call i takes the entry at index picks[i + 1] of
\* what is left of the entries, as { key, value }; it is stored under its key
\* when that is a string, and else under i with value.value || value.
RECURSIVE randomLoop(_, _, _, _, _)
randomLoop(r, left, i, len, picks) ==
    IF r.threw \/ i >= len THEN r
    ELSE LET random == left[picks[i + 1]]
             rt == KeyValue(random[1], random[2])
         IN  randomLoop(IF isString(rt.key)
                        THEN set(r.c, rt.key, rt.value)
                        ELSE set(r.c, Num(i),
                                 IF Truthy(rt.value) THEN rt.value ELSE rt),
                        RemoveAt(left, picks[i + 1]), i + 1, len, picks)

\* picks are the outcomes of Math.floor(Math.random() * entries.length),
\* counted from 1.  The result is the value returned and whether the call
\* threw (without an amount, reading random[0] of no entry is a TypeError).
random(c, amount, picks) ==
    IF ~isNumber(amount)
    THEN IF c = <<>> THEN [ret |-> Undefined, threw |-> TRUE]
         ELSE [ret |-> KeyValue(c[picks[1]][1], c[picks[1]][2]), threw |-> FALSE]
    ELSE LET r == randomLoop([c |-> <<>>, threw |-> FALSE], c, 0,
                             Min(amount.n, Len(c)), picks)
         IN  [ret |-> Instance(r.c), threw |-> r.threw]

(***************************************************************************)
(* map(func)                                                               *)
(***************************************************************************)
\* The transforms the model passes to map, as (value, key) => ...
\*   "value"  (v) => v
\*   "key"    (v, k) => k
Transforms == {"value", "key"}

Transform(func, value, key) == IF func = "value" THEN value ELSE key

\* ContainorArray.from({ length: this.length }, mapFn): Array.from calls
\* the mapFn once for every index, each call taking the next entry
map(c, func) ==
    ContainorArrayFrom([i \in 1..length(c) |-> Transform(func, c[i][2], c[i][1])])

(***************************************************************************)
(* new Containor(value) and clone()                                        *)
(***************************************************************************)
\* the constructor: an empty Map, then addMap(value) unless value is falsy
\* (a Map, an array and a plain object are not, and have no 'containor'
\* property)
ContainorNew(value) ==
    IF isUndefined(value) \/ isNull(value) THEN [c |-> <<>>, threw |-> FALSE]
    ELSE addMap(<<>>, value, "none")

\* clone(): new Containor(this), the receiver being a Map
clone(c) == ContainorNew(Mapping("map", c))

(***************************************************************************)
(* The inputs of the calls.                                                *)
(***************************************************************************)
\* keys a container of the model stores: a string, a number and a key that
\* is neither (a boolean)
Keys == {Str("a"), Num(2), Bool(TRUE)}

\* values a container of the model stores
Vals == {Num(1), Undefined, Null}

RECURSIVE SeqsUpTo(_, _)
SeqsUpTo(S, n) ==
    IF n = 0 THEN {<<>>}
    ELSE LET shorter == SeqsUpTo(S, n - 1)
         IN  shorter \cup {Append(q, x) : q \in shorter, x \in S}

DistinctKeys(pairs) ==
    \A i, j \in 1..Len(pairs) : pairs[i][1] = pairs[j][1] => i = j

\* the pairs of an addMap or set(m) source
SourcePairs ==
    {<<Str("a"), Num(1)>>, <<Str("a"), Undefined>>, <<Num(2), Null>>,
     <<Bool(TRUE), Undefined>>}

\* an array of pairs, a Map (distinct keys, also what a Containor is) and a
\* plain object (distinct string keys)
Sources ==
    {Mapping("array", e) : e \in SeqsUpTo(SourcePairs, MaxItems)}
    \cup {Mapping("map", e) :
            e \in {q \in SeqsUpTo(SourcePairs, MaxItems) : DistinctKeys(q)}}
    \cup {Mapping("object", e) :
            e \in {q \in SeqsUpTo(SourcePairs, MaxItems) :
                     DistinctKeys(q) /\ \A i \in 1..Len(q) : isString(q[i][1])}}

\* the pairs of a splice's items
ItemPairs == {<<Str("a"), Num(1)>>, <<Bool(TRUE), Undefined>>}

\* a start that is no number counts as 0
Starts == {Undefined} \cup {Num(i) : i \in (0 - MaxSize + 1)..MaxSize}
DeleteCounts == {Undefined} \cup {Num(i) : i \in (0 - 1)..MaxItems}

\* the amount of first, last and random: none, or a number up to the
\* largest size
Amounts == {Undefined} \cup {Num(i) : i \in 0..MaxSize}

\* the outcomes of n random choices without replacement among size entries
RECURSIVE PickSeqs(_, _)
PickSeqs(size, n) ==
    IF n <= 0 \/ size <= 0 THEN {<<>>}
    ELSE {<<p>> \o q : p \in 1..size, q \in PickSeqs(size - 1, n - 1)}

\* the random choices a random(amount) call on c makes
Picks(c, amount) ==
    PickSeqs(Len(c), IF isNumber(amount) THEN Min(amount.n, Len(c)) ELSE 1)

\* every sequence of random choices a call of the model can make
PickChoices == UNION {PickSeqs(size, n) : size \in 0..MaxSize, n \in 0..MaxSize}

(***************************************************************************)
(* The state machine: a container and the last call made on it.            *)
(***************************************************************************)
\* new Containor(): no argument, so the constructor adds nothing
Init ==
    /\ containor = <<>>
    /\ array = <<>>
    /\ op = "idle"
    /\ arg = [none |-> TRUE]
    /\ pre = <<>>
    /\ ret = [threw |-> FALSE]

\* the caller is done with the result of the last call and may call again
Return ==
    /\ op # "idle"
    /\ op' = "idle"
    /\ arg' = [none |-> TRUE]
    /\ pre' = containor
    /\ ret' = [threw |-> FALSE]
    /\ UNCHANGED <<containor, array>>

\* set(key, value) with a key that is no mapping
Set(key, value) ==
    LET r == set(containor, key, value)
    IN  /\ op = "idle"
        /\ Len(r.c) <= MaxSize
        /\ containor' = r.c
        /\ op' = "set"
        /\ arg' = [key |-> key, value |-> value]
        /\ pre' = containor
        /\ ret' = [threw |-> r.threw]
        /\ UNCHANGED array

\* set(m) with a single mapping-like argument
SetMap(m) ==
    LET r == set(containor, m, Undefined)
    IN  /\ op = "idle"
        /\ Len(r.c) <= MaxSize
        /\ containor' = r.c
        /\ op' = "setMap"
        /\ arg' = [m |-> m]
        /\ pre' = containor
        /\ ret' = [threw |-> r.threw]
        /\ UNCHANGED array

AddMap(m, func) ==
    LET r == addMap(containor, m, func)
    IN  /\ op = "idle"
        /\ Len(r.c) <= MaxSize
        /\ containor' = r.c
        /\ op' = "addMap"
        /\ arg' = [m |-> m, func |-> func]
        /\ pre' = containor
        /\ ret' = [threw |-> r.threw]
        /\ UNCHANGED array

Delete(args) ==
    LET r == delete(containor, args)
    IN  /\ op = "idle"
        /\ containor' = r.c
        /\ op' = "delete"
        /\ arg' = [keys |-> args]
        /\ pre' = containor
        /\ ret' = [threw |-> FALSE, value |-> r.ret]
        /\ UNCHANGED array

Sort(func) ==
    /\ op = "idle"
    /\ containor' = sort(containor, func)
    /\ op' = "sort"
    /\ arg' = [func |-> func]
    /\ pre' = containor
    /\ ret' = [threw |-> FALSE, seen |-> sortSeen(containor, func),
               receiver |-> TRUE]
    /\ UNCHANGED array

Splice(start, deleteCount, items) ==
    LET r == splice(containor, start, deleteCount, items)
    IN  /\ op = "idle"
        /\ Len(r.c) <= MaxSize
        /\ containor' = r.c
        /\ op' = "splice"
        /\ arg' = [start |-> start, deleteCount |-> deleteCount, items |-> items]
        /\ pre' = containor
        /\ ret' = [threw |-> r.threw, c |-> r.ret]
        /\ UNCHANGED array

Filter(func) ==
    LET r == filter(containor, func)
    IN  /\ op = "idle"
        /\ containor' = containor
        /\ op' = "filter"
        /\ arg' = [func |-> func]
        /\ pre' = containor
        /\ ret' = [threw |-> r.threw, c |-> r.c]
        /\ UNCHANGED array

Partition(func) ==
    LET r == partition(containor, func)
    IN  /\ op = "idle"
        /\ containor' = containor
        /\ op' = "partition"
        /\ arg' = [func |-> func]
        /\ pre' = containor
        /\ ret' = [threw |-> r.threw, a |-> r.a]
        /\ UNCHANGED array

First(amount) ==
    LET r == first(containor, amount)
    IN  /\ op = "idle"
        /\ containor' = containor
        /\ op' = "first"
        /\ arg' = [amount |-> amount]
        /\ pre' = containor
        /\ ret' = [threw |-> r.threw, value |-> r.ret]
        /\ UNCHANGED array

Last(amount) ==
    LET r == last(containor, amount)
    IN  /\ op = "idle"
        /\ containor' = containor
        /\ op' = "last"
        /\ arg' = [amount |-> amount]
        /\ pre' = containor
        /\ ret' = [threw |-> r.threw, value |-> r.ret]
        /\ UNCHANGED array

ToJSON ==
    /\ op = "idle"
    /\ containor' = containor
    /\ op' = "toJSON"
    /\ arg' = [none |-> TRUE]
    /\ pre' = containor
    /\ ret' = [threw |-> FALSE, value |-> toJSON(containor)]
    /\ UNCHANGED array

DeleteFunc(func) ==
    LET r == deleteFunc(containor, func)
    IN  /\ op = "idle"
        /\ containor' = r.c
        /\ op' = "deleteFunc"
        /\ arg' = [func |-> func]
        /\ pre' = containor
        /\ ret' = [threw |-> FALSE, value |-> r.ret, calls |-> r.calls,
                   seen |-> r.seen]
        /\ UNCHANGED array

Ensure(key, gen) ==
    LET r == ensure(containor, key, gen)
    IN  /\ op = "idle"
        /\ Len(r.c) <= MaxSize
        /\ containor' = r.c
        /\ op' = "ensure"
        /\ arg' = [key |-> key, gen |-> gen]
        /\ pre' = containor
        /\ ret' = [threw |-> r.threw, value |-> r.ret, calls |-> r.calls]
        /\ UNCHANGED array

Random(amount, picks) ==
    LET r == random(containor, amount, picks)
    IN  /\ op = "idle"
        /\ picks \in Picks(containor, amount)
        /\ containor' = containor
        /\ op' = "random"
        /\ arg' = [amount |-> amount, picks |-> picks]
        /\ pre' = containor
        /\ ret' = [threw |-> r.threw, value |-> r.ret]
        /\ UNCHANGED array

Map(func) ==
    LET r == map(containor, func)
    IN  /\ op = "idle"
        /\ containor' = containor
        /\ op' = "map"
        /\ arg' = [func |-> func]
        /\ pre' = containor
        /\ ret' = [threw |-> r.threw, a |-> r.a]
        /\ UNCHANGED array

Clone ==
    LET r == clone(containor)
    IN  /\ op = "idle"
        /\ containor' = containor
        /\ op' = "clone"
        /\ arg' = [none |-> TRUE]
        /\ pre' = containor
        /\ ret' = [threw |-> r.threw, c |-> r.c]
        /\ UNCHANGED array

Next ==
    \/ \E key \in Keys \cup {Undefined}, value \in Vals : Set(key, value)
    \/ \E m \in Sources : SetMap(m)
    \/ \E m \in Sources, func \in Reducers : AddMap(m, func)
    \/ \E args \in SeqsUpTo(Keys, MaxDeleteArgs) : Delete(args)
    \/ \E func \in Comparators : Sort(func)
    \/ \E start \in Starts, deleteCount \in DeleteCounts,
          items \in SeqsUpTo(ItemPairs, MaxItems) :
            Splice(start, deleteCount, items)
    \/ \E func \in Predicates : Filter(func)
    \/ \E func \in Predicates : Partition(func)
    \/ \E amount \in Amounts : First(amount)
    \/ \E amount \in Amounts : Last(amount)
    \/ \E func \in DeletePredicates : DeleteFunc(func)
    \/ \E key \in Keys, gen \in Generators : Ensure(key, gen)
    \/ \E amount \in Amounts, picks \in PickChoices : Random(amount, picks)
    \/ \E func \in Transforms : Map(func)
    \/ Clone
    \/ Return

Spec == Init /\ [][Next]_vars

(***************************************************************************)
(* The passes with a callback that changes the receiver, one call of the   *)
(* callback at a time.                                                     *)
(***************************************************************************)
\* the call of a pass, up to the first iterator.next().  calls is the number
\* of calls of func so far, counted modulo 2: its value decides nothing, and
\* a pass that goes on forever has no largest count.
Pass(method, func) ==
    /\ op = "idle"
    /\ op' = "pass"
    /\ arg' = [method |-> method, func |-> func]
    /\ pre' = containor
    /\ ret' = [threw |-> FALSE, position |-> 1, done |-> FALSE, calls |-> 0]
    /\ UNCHANGED <<containor, array>>

\* one round of the loop: the pass returns when the iterator is done, else
\* func is called for the entry the iterator is at, delete(func) deletes
\* the key when the result is true, and the pass returns or goes on
PassCall ==
    /\ op = "pass"
    /\ ~ret.done
    /\ IF ret.position > Len(containor)
       THEN /\ ret' = [ret EXCEPT !.done = TRUE]
            /\ UNCHANGED containor
       ELSE LET key == containor[ret.position][1]
                called == Call(arg.func, containor, key)
                deletes == arg.method = "delete" /\ arg.func.result
            IN  /\ containor' = IF deletes THEN MapDelete(called.c, key)
                                ELSE called.c
                /\ ret' = [ret EXCEPT
                             !.position = passNext(ret.position,
                                                   called.removed \/ deletes),
                             !.done = passStops(arg.method, arg.func.result),
                             !.calls = (ret.calls + 1) % 2]
    /\ UNCHANGED <<array, op, arg, pre>>

\* the caller goes on when the call has returned
PassReturn ==
    /\ op = "pass" => ret.done
    /\ Return

NextEach ==
    \/ \E key \in Keys, value \in Vals : Set(key, value)
    \/ \E method \in Passes, func \in Callbacks : Pass(method, func)
    \/ PassCall
    \/ PassReturn

\* the loop of a pass is synchronous code: while it can make its next round
\* it makes it
SpecEach == Init /\ [][NextEach]_vars /\ WF_vars(PassCall)

(***************************************************************************)
(* The calls that fail part of the way: splice with an item that is no     *)
(* pair, addMap with a source pair whose key is undefined.                 *)
(***************************************************************************)
\* the items of a splice: pairs, and the number 5
FailItems == ItemPairs \cup {NotIterable(Num(5))}

FailStarts == {Num(0), Num(1)}
FailCounts == {Num(0), Num(1)}

\* arrays and Maps of pairs, also with an undefined key
FailPairs == {<<Str("a"), Null>>, <<Num(2), Num(1)>>, <<Undefined, Num(1)>>}

FailSources ==
    {Mapping("array", e) : e \in SeqsUpTo(FailPairs, MaxItems)}
    \cup {Mapping("map", e) :
            e \in {q \in SeqsUpTo(FailPairs, MaxItems) : DistinctKeys(q)}}

NextFail ==
    \/ \E key \in Keys, value \in Vals : Set(key, value)
    \/ \E start \in FailStarts, deleteCount \in FailCounts,
          items \in SeqsUpTo(FailItems, MaxItems) :
            Splice(start, deleteCount, items)
    \/ \E m \in FailSources : AddMap(m, "none")
    \/ Return

SpecFail == Init /\ [][NextFail]_vars

(***************************************************************************)
(* The calls set and toJSON on containers whose keys are also null and the *)
(* string 'length'.                                                        *)
(***************************************************************************)
WideKeys == Keys \cup {Str("length"), Null}

NextKeys ==
    \/ \E key \in WideKeys \cup {Undefined}, value \in Vals : Set(key, value)
    \/ ToJSON
    \/ Return

SpecKeys == Init /\ [][NextKeys]_vars

(***************************************************************************)
(* A ContainorArray and the calls made on it.                              *)
(***************************************************************************)
\* the elements a ContainorArray of the model holds
Elements == {Num(2), Num(0 - 1), Str("x")}

\* push(x) of Array.prototype, which ContainorArray inherits
Push(x) ==
    /\ op = "idle"
    /\ Len(array) < MaxLen
    /\ array' = Append(array, x)
    /\ op' = "push"
    /\ arg' = [x |-> x]
    /\ ret' = [threw |-> FALSE]
    /\ UNCHANGED <<containor, pre>>

Chunk(size) ==
    LET r == chunk(array, size)
    IN  /\ op = "idle"
        /\ array' = array
        /\ op' = "chunk"
        /\ arg' = [size |-> size]
        /\ ret' = [threw |-> r.threw, a |-> r.a]
        /\ UNCHANGED <<containor, pre>>

\* what a removeDuplicates call of the model passes as arrayDefault
DuplicateSources ==
    {[kind |-> "none", a |-> <<>>], [kind |-> "this", a |-> <<>>]}
    \cup {[kind |-> "array", a |-> a] : a \in SeqsUpTo(Elements, MaxItems + 1)}

RemoveDuplicates(source, ignore) ==
    /\ op = "idle"
    /\ array' = removeDuplicates(array, source, ignore)
    /\ op' = "removeDuplicates"
    /\ arg' = [source |-> source, ignore |-> ignore]
    /\ pre' = array
    /\ ret' = [threw |-> FALSE]
    /\ UNCHANGED containor

\* the indices a deleteAt call of the model passes
Indices == (0 - 1)..MaxLen

DeleteAt(removeArr) ==
    LET r == deleteAt(array, removeArr)
    IN  /\ op = "idle"
        /\ array' = r.a
        /\ op' = "deleteAt"
        /\ arg' = [removeArr |-> removeArr]
        /\ pre' = array
        /\ ret' = [threw |-> r.threw]
        /\ UNCHANGED containor

\* the quantity of random: none, what is no number, or a number
Quantities == {Undefined, Str("x")} \cup {Num(i) : i \in 0..(MaxItems + 1)}

\* every sequence of random choices a random call on an array can make
ArrayPickChoices ==
    UNION {PickSeqs(size, n) : size \in 0..MaxLen, n \in 0..(MaxItems + 1)}

ArrayRandom(quantity, picks) ==
    LET r == arrayRandom(array, quantity, picks)
    IN  /\ op = "idle"
        /\ picks \in PickSeqs(Len(arrayClone(array).a),
                              arrayRandomItems(array, quantity))
        /\ array' = array
        /\ op' = "arrayRandom"
        /\ arg' = [quantity |-> quantity, picks |-> picks]
        /\ pre' = array
        /\ ret' = [threw |-> r.threw, a |-> r.a]
        /\ UNCHANGED containor

NextArray ==
    \/ \E x \in Elements : Push(x)
    \/ \E quantity \in Quantities, picks \in ArrayPickChoices :
          ArrayRandom(quantity, picks)
    \/ \E removeArr \in SeqsUpTo(Indices, MaxItems) : DeleteAt(removeArr)
    \/ \E size \in 1..MaxChunk : Chunk(size)
    \/ \E source \in DuplicateSources, ignore \in SeqsUpTo(Elements, 1) :
          RemoveDuplicates(source, ignore)
    \/ Return

\* new ContainorArray(): Init's array is the empty one
SpecArray == Init /\ [][NextArray]_vars

(***************************************************************************)
(* The claims.                                                             *)
(***************************************************************************)
NoDuplicateKeys(c) == \A i, j \in 1..Len(c) : c[i][1] = c[j][1] => i = j

\* the keys of c with key inserted after them unless it is one of them
FirstInserted(c, key) ==
    IF \E i \in 1..Len(c) : c[i][1] = key THEN MapKeys(c) ELSE Append(MapKeys(c), key)

\* C1: after every set(key, value), whatever the type of the key, keys()
\* returns exactly the distinct keys, each once, in the order in which each
\* was first inserted (a set of a key already present leaves the order as
\* it was).
C1_KeysInInsertionOrder ==
    (op = "set" /\ arg.key \in Keys) =>
        /\ ~keys(containor).threw
        /\ keys(containor).a = FirstInserted(pre, arg.key)

\* C2: in every state reached by set, addMap, delete, sort and splice calls
\* the container holds no duplicate keys, length is the number of distinct
\* keys, and keys(), values() and entries() each return exactly length
\* elements listing the same entries in the same order.
C2_LengthAndViews ==
    /\ NoDuplicateKeys(containor)
    /\ length(containor) = Cardinality({containor[i][1] : i \in 1..Len(containor)})
    /\ ~keys(containor).threw /\ ~values(containor).threw /\ ~entries(containor).threw
    /\ Len(keys(containor).a) = length(containor)
    /\ Len(values(containor).a) = length(containor)
    /\ Len(entries(containor).a) = length(containor)
    /\ \A i \in 1..length(containor) :
          /\ keys(containor).a[i] = containor[i][1]
          /\ values(containor).a[i] = containor[i][2]
          /\ entries(containor).a[i] = [t |-> "array", e |-> containor[i]]

\* C3: for a key k that is not in the container and any value v, undefined
\* and null included, has(k) is false before set(k, v), and after it has(k)
\* is true and get(k) returns exactly v.
C3_SetThenHasGet ==
    (op = "set" /\ arg.key \in Keys /\ \A i \in 1..Len(pre) : pre[i][1] # arg.key) =>
        /\ ~has(pre, arg.key)
        /\ ~ret.threw
        /\ has(containor, arg.key)
        /\ get(containor, arg.key) = arg.value

\* C4: delete with literal keys returns the number of entries removed (1
\* for one present key, 0 for one absent key, the number of given keys that
\* were present for several) and removes exactly the given keys that were
\* present.
C4_DeleteReturnsCount ==
    op = "delete" =>
        LET given == {arg.keys[i] : i \in 1..Len(arg.keys)}
            present == {k \in given : \E i \in 1..Len(pre) : pre[i][1] = k}
            stays(e) == e[1] \notin present
        IN  /\ ret.value = Num(Cardinality(present))
            /\ containor = SelectSeq(pre, stays)
            /\ length(containor) = length(pre) - Cardinality(present)

\* the entries of c that splice(start, deleteCount) leaves in place
SpliceRemaining(c, start, deleteCount) ==
    SubSeq(c, 1, spliceStart(c, start))
    \o SubSeq(c, spliceStart(c, start) + spliceCount(c, start, deleteCount) + 1, Len(c))

\* the keys of items are pairwise distinct and none is a key of an entry
\* that the splice leaves in place
FreshItems(c, start, deleteCount, items) ==
    /\ DistinctKeys(items)
    /\ \A i \in 1..Len(items) :
          \A j \in 1..Len(SpliceRemaining(c, start, deleteCount)) :
             SpliceRemaining(c, start, deleteCount)[j][1] # items[i][1]

C6_SpliceResult ==
    (op = "splice" /\ FreshItems(pre, arg.start, arg.deleteCount, arg.items)) =>
        LET s == spliceStart(pre, arg.start)
            n == spliceCount(pre, arg.start, arg.deleteCount)
        IN  /\ ~ret.threw
            /\ containor = SubSeq(pre, 1, s) \o arg.items \o SubSeq(pre, s + n + 1, Len(pre))
            /\ \A i \in 1..Len(arg.items) :
                  MapGet(containor, arg.items[i][1]) = arg.items[i][2]
            /\ ret.c = SubSeq(pre, s + 1, s + n)

\* C7: sort(cmp) twice is idempotent: in the state a sort(cmp) call leaves,
\* a second sort(cmp) gives the same entry order.
C7_SortIdempotent ==
    op = "sort" => sort(containor, arg.func) = containor

\* C7 witness: a sort that reordered three entries, two of which compare
\* equal
C7_Witness ==
    /\ op = "sort"
    /\ Len(containor) = 3
    /\ containor # pre
    /\ \E i \in 1..2 : Compare(arg.func, containor[i], containor[i + 1]) = 0

\* C8: set(m) with one mapping-like argument merges m with overwrite
\* semantics: every key of m maps to m's value for it, keys already present
\* keep their position, new keys are appended in m's order, other entries
\* are unchanged (which is what setting m's pairs one by one on the
\* receiver's Map gives).
C8_SetMapMerges ==
    op = "setMap" =>
        /\ ~ret.threw
        /\ containor = MapFromEntries(pre \o arg.m.e)

\* the value a key holds after the reducer was applied, in source order, to
\* the source's entries for that key, starting from the stored value
RECURSIVE Reduced(_, _, _, _, _)
Reduced(func, source, i, key, existing) ==
    IF i > Len(source) THEN existing
    ELSE Reduced(func, source, i + 1, key,
                 IF source[i][1] = key
                 THEN Reduce(func, source[i][2], existing)
                 ELSE existing)

\* C9: addMap(source, reducer): a key already present with value e ends
\* with reducer(v, e, k, container) (v without a reducer) for its incoming
\* entry (k, v), the entries of a repeated key applied in source order, each
\* seeing the value the previous one stored; and it keeps its position.
C9_AddMapReduces ==
    op = "addMap" =>
        \A i \in 1..Len(pre) :
            (\E j \in 1..Len(arg.m.e) : arg.m.e[j][1] = pre[i][1]) =>
                /\ ~ret.threw
                /\ containor[i][1] = pre[i][1]
                /\ containor[i][2] = Reduced(arg.func, arg.m.e, 1, pre[i][1], pre[i][2])

\* C10: filter(pred) is a new container holding exactly the entries that
\* satisfy pred, same key and value, in insertion order, so its length is
\* their number; also for a non-string, non-number key with an undefined
\* value.
C10_FilterKeepsMatches ==
    op = "filter" =>
        LET matches(e) == Test(arg.func, e[2], e[1])
        IN  /\ ~ret.threw
            /\ ret.c = SelectSeq(pre, matches)
            /\ length(ret.c) = Len(SelectSeq(pre, matches))

\* C11: partition(pred) returns exactly two new containers, the matches and
\* then the others, whose key sets are disjoint, whose sizes sum to the
\* receiver's length, and each of which keeps the relative order its
\* entries have in the receiver.
C11_PartitionSplits ==
    op = "partition" =>
        LET matches(e) == Test(arg.func, e[2], e[1])
            others(e) == ~Test(arg.func, e[2], e[1])
        IN  /\ ~ret.threw
            /\ Len(ret.a) = 2
            /\ {ret.a[1][i][1] : i \in 1..Len(ret.a[1])}
               \cap {ret.a[2][i][1] : i \in 1..Len(ret.a[2])} = {}
            /\ length(ret.a[1]) + length(ret.a[2]) = length(pre)
            /\ ret.a[1] = SelectSeq(pre, matches)
            /\ ret.a[2] = SelectSeq(pre, others)

\* C12: first(n) and last(n): with n omitted or n <= 1 the result is the
\* single { key, value } pair of the first / last entry, or the empty
\* indicator when the container is empty; with n > 1 the result is always a
\* new container holding the first / last min(n, size) entries in their
\* original order, whatever the size of the receiver.
C12_FirstLast ==
    op \in {"first", "last"} =>
        LET n == IF isNumber(arg.amount) /\ arg.amount.n > 1 THEN arg.amount.n ELSE 1
            k == Min(n, Len(pre))
            expected == IF op = "first" THEN SubSeq(pre, 1, k)
                        ELSE SubSeq(pre, Len(pre) - k + 1, Len(pre))
        IN  /\ ~ret.threw
            /\ IF n > 1 THEN ret.value = Instance(expected)
               ELSE IF pre = <<>> THEN ret.value = Undefined
               ELSE ret.value = KeyValue(expected[1][1], expected[1][2])

\* C13: round trip: Containor.from(C.toJSON()) is a container with the same
\* key-value pairs as C, up to order: as many entries, and every key of C
\* present with C's value; also for a key named 'length' with a numeric
\* value and for numeric keys.
C13_ToJSONRoundTrip ==
    op = "toJSON" =>
        LET back == ContainorFrom(ret.value)
        IN  /\ ~back.threw
            /\ length(back.c) = length(pre)
            /\ \A i \in 1..Len(pre) :
                  /\ has(back.c, pre[i][1])
                  /\ MapGet(back.c, pre[i][1]) = pre[i][2]

\* the number of entries of c before the j-th for which func, called in
\* order with the number removed so far, returned true
RECURSIVE DeletedBefore(_, _, _)
DeletedBefore(func, c, j) ==
    IF j <= 1 THEN 0
    ELSE DeletedBefore(func, c, j - 1)
         + (IF TestDelete(func, c[j - 1][2], c[j - 1][1], DeletedBefore(func, c, j - 1))
            THEN 1 ELSE 0)

\* C14: delete(pred) with a single predicate (one that does not itself
\* change the container) evaluates pred exactly once for each entry that was
\* in the container when the call began, in insertion order, passing as
\* deletedSoFar the number of entries removed earlier in the pass; it
\* removes exactly the entries for which pred returned true, leaves the
\* others in their relative order, and returns the total number removed.
C14_DeleteByPredicate ==
    op = "deleteFunc" =>
        LET stays(e) == ~TestDelete(arg.func, e[2], e[1],
                                    DeletedBefore(arg.func, pre, MapIndex(pre, e[1])))
        IN  /\ ~ret.threw
            /\ Len(ret.calls) = Len(pre)
            /\ \A j \in 1..Len(pre) :
                  ret.calls[j] = <<pre[j][1], pre[j][2], DeletedBefore(arg.func, pre, j)>>
            /\ containor = SelectSeq(pre, stays)
            /\ ret.value = Num(Len(pre) - Len(containor))

\* C14 witness: a pass over three entries that removed the first two and
\* kept the third, which saw two removals
C14_Witness ==
    /\ op = "deleteFunc"
    /\ Len(pre) = 3
    /\ containor = <<pre[3]>>
    /\ ret.value = Num(2)
    /\ ret.calls[3][3] = 2

\* C15: ensure(key, generator): if key is present it returns the stored
\* value, does not call generator and leaves the container as it is; if key
\* is absent it calls generator(key, container) exactly once, stores the
\* result under key (has(key) is true afterwards and the key is last in
\* order) and returns that result; it fails with an error whenever generator
\* is not callable.
C15_Ensure ==
    op = "ensure" =>
        IF arg.gen = "notFunction" THEN ret.threw /\ containor = pre
        ELSE IF \E i \in 1..Len(pre) : pre[i][1] = arg.key
        THEN /\ ~ret.threw
             /\ ret.value = MapGet(pre, arg.key)
             /\ ret.calls = 0
             /\ containor = pre
        ELSE /\ ~ret.threw
             /\ ret.calls = 1
             /\ has(containor, arg.key)
             /\ containor = Append(pre, <<arg.key, Generate(arg.gen, arg.key)>>)
             /\ ret.value = Generate(arg.gen, arg.key)

\* C16: random(n) with n given returns, for every outcome of the random
\* choices, a new container of exactly min(n, size) entries, each of which
\* is an entry of the receiver (same key, same value) and no two of which
\* are the same entry; the receiver is unchanged; for string keys and for
\* other keys.
C16_RandomSample ==
    (op = "random" /\ isNumber(arg.amount)) =>
        /\ ~ret.threw
        /\ ret.value.t = "containor"
        /\ length(ret.value.c) = Min(arg.amount.n, length(pre))
        /\ \A i \in 1..Len(ret.value.c) :
              \E j \in 1..Len(pre) : ret.value.c[i] = pre[j]
        /\ \A i, j \in 1..Len(ret.value.c) :
              ret.value.c[i] = ret.value.c[j] => i = j
        /\ containor = pre

\* C17: map(transform) applies transform(value, key, container) to every
\* entry in insertion order and returns a sequence with exactly one element
\* per entry, the i-th being the transform's result for the i-th entry; for
\* every container size (a single entry too) and every result type (numbers
\* too).
C17_MapInOrder ==
    op = "map" =>
        /\ ~ret.threw
        /\ Len(ret.a) = length(pre)
        /\ \A i \in 1..Len(pre) :
              ret.a[i] = Transform(arg.func, pre[i][2], pre[i][1])

\* C18: clone() returns a new container with exactly the receiver's entries
\* (same keys, same values, same count) in the same order, and the call
\* leaves the receiver as it was (the clone is a container of its own, so
\* later calls on one do not reach the other).
C18_CloneCopies ==
    op = "clone" =>
        /\ ~ret.threw
        /\ length(ret.c) = length(pre)
        /\ ret.c = pre
        /\ containor = pre

\* C19 (as claimed): set(key, value) fails with an invalid-key error
\* whenever key is undefined or null, whether or not a value is supplied,
\* and then the entries and their order are as before the call.
C19_SetNullishKeyFails ==
    (op = "set" /\ (isUndefined(arg.key) \/ isNull(arg.key))) =>
        /\ ret.threw
        /\ containor = pre

\* C19 (amended): set(key, value) fails whenever key is undefined, whether
\* or not a value is supplied, and then the entries and their order are as
\* before the call; with the key null it does not fail: it stores the value
\* under the key null, or changes nothing when the value is undefined.
C19_SetUndefinedKeyFails ==
    /\ (op = "set" /\ isUndefined(arg.key)) =>
          /\ ret.threw
          /\ containor = pre
    /\ (op = "set" /\ isNull(arg.key)) =>
          /\ ~ret.threw
          /\ containor = IF isUndefined(arg.value) THEN pre
                         ELSE MapSet(pre, Null, arg.value)

\* C19 witness: a set with the key undefined and a value, on a container
\* that holds two entries, one of them under the key null
C19_Witness ==
    /\ op = "set"
    /\ isUndefined(arg.key)
    /\ ~isUndefined(arg.value)
    /\ ret.threw
    /\ Len(pre) = 2
    /\ MapHas(pre, Null)

\* the elements of the chunks, in order
RECURSIVE Flatten(_)
Flatten(chunks) ==
    IF chunks = <<>> THEN <<>>
    ELSE Flatten(SubSeq(chunks, 1, Len(chunks) - 1)) \o chunks[Len(chunks)].e

\* C20: for a sequence S of length L and a positive integer n, S.chunk(n)
\* returns ceil(L / n) chunks, every chunk but the last has exactly n
\* elements, the last has between 1 and n, and the chunks concatenated in
\* order give S, whatever the elements are (numbers too, n = 1 and a last
\* chunk of one element too).
C20_ChunkPartitions ==
    op = "chunk" =>
        LET n == arg.size
            count == (Len(array) + n - 1) \div n
        IN  /\ ~ret.threw
            /\ Len(ret.a) = count
            /\ \A i \in 1..Len(ret.a) :
                  /\ ret.a[i].t = "array"
                  /\ i < Len(ret.a) => Len(ret.a[i].e) = n
                  /\ i = Len(ret.a) => Len(ret.a[i].e) \in 1..n
            /\ Flatten(ret.a) = array

\* the items of source that are in ignore or occur for the first time
RECURSIVE FirstOccurrences(_, _, _)
FirstOccurrences(source, i, ignore) ==
    IF i > Len(source) THEN <<>>
    ELSE IF (\E j \in 1..Len(ignore) : ignore[j] = source[i])
            \/ (\A j \in 1..(i - 1) : source[j] # source[i])
         THEN <<source[i]>> \o FirstOccurrences(source, i + 1, ignore)
         ELSE FirstOccurrences(source, i + 1, ignore)

\* C21: removeDuplicates() without arguments rebuilds the sequence in place
\* keeping exactly the first occurrence of each distinct value, in the
\* original order; removeDuplicates(source, ...ignore) keeps the first
\* occurrence of each distinct value of source plus every occurrence of a
\* value listed in ignore, also when source is the receiver itself.
C21_RemoveDuplicates ==
    op = "removeDuplicates" =>
        array = FirstOccurrences(IF arg.source.kind = "array" THEN arg.source.a
                                 ELSE pre,
                                 1, arg.ignore)

\* the elements of a at the 0-based positions that are not in given
RECURSIVE Without(_, _, _)
Without(a, i, given) ==
    IF i > Len(a) THEN <<>>
    ELSE (IF (i - 1) \in given THEN <<>> ELSE <<a[i]>>) \o Without(a, i + 1, given)

\* C22: deleteAt(...indices): if a given index is outside [0, length) the
\* call fails and the sequence is exactly as it was, also when valid
\* indices come before the invalid one; otherwise it removes exactly the
\* elements at the distinct given positions (a repeated index counts once)
\* and keeps the others in order.
C22_DeleteAt ==
    op = "deleteAt" =>
        LET given == {arg.removeArr[i] : i \in 1..Len(arg.removeArr)}
        IN  IF \E index \in given : index < 0 \/ index >= Len(pre)
            THEN ret.threw /\ array = pre
            ELSE /\ ~ret.threw
                 /\ array = Without(pre, 1, given)
                 /\ Len(array) = Len(pre) - Cardinality(given)

\* C22 witness: a call on three elements that names a valid index and then
\* one out of range
C22_Witness ==
    /\ op = "deleteAt"
    /\ Len(pre) = 3
    /\ Len(arg.removeArr) = 2
    /\ arg.removeArr[1] = 1
    /\ arg.removeArr[2] = 3
    /\ ret.threw

\* C23: random(n = 1) on a sequence S: for a positive number n and every
\* outcome of the random choices the result is a new sequence of exactly
\* min(n, length) elements, each taken from a distinct position of S, and S
\* is not modified, in particular for random() with the default n = 1 on a
\* sequence of numbers; if n is not a positive number the call fails.
C23_ArrayRandomSample ==
    op = "arrayRandom" =>
        LET n == IF isUndefined(arg.quantity) THEN Num(1) ELSE arg.quantity
        IN  IF ~isNumber(n) \/ n.n < 1 THEN ret.threw /\ array = pre
            ELSE /\ ~ret.threw
                 /\ Len(ret.a) = Min(n.n, Len(pre))
                 /\ \E f \in [1..Len(ret.a) -> 1..Len(pre)] :
                       /\ \A i, j \in 1..Len(ret.a) : f[i] = f[j] => i = j
                       /\ \A i \in 1..Len(ret.a) : ret.a[i] = pre[f[i]]
                 /\ array = pre

\* the entries of c without those at the indices in gone
RECURSIVE WithoutIndices(_, _, _)
WithoutIndices(c, gone, j) ==
    IF j > Len(c) THEN <<>>
    ELSE (IF j \in gone THEN <<>> ELSE <<c[j]>>) \o WithoutIndices(c, gone, j + 1)

\* C24 as stated: while delete by predicate or sort is running, every call
\* of the predicate or of the comparator that reads the receiver finds either
\* the state of before the call or the complete final state, never a state
\* in between.
C24_CallbacksSeeNoIntermediate ==
    /\ op = "deleteFunc" =>
          \A j \in 1..Len(ret.seen) : ret.seen[j] = pre \/ ret.seen[j] = containor
    /\ op = "sort" => \A s \in ret.seen : s = pre \/ s = containor

\* C24: every call of the comparator of sort finds the receiver as it was
\* before the call of sort (splice calls no callback); the call of the
\* predicate of delete for the j-th entry finds the receiver without the
\* entries the earlier calls of this pass chose, in their previous order:
\* deletedSoFar entries fewer than before the call of delete.
C24_CallbacksSeeDeletionsSoFar ==
    /\ op = "sort" => \A s \in ret.seen : s = pre
    /\ op = "deleteFunc" =>
          /\ Len(ret.seen) = Len(pre)
          /\ \A j \in 1..Len(pre) :
                LET gone == {i \in 1..(j - 1) :
                                TestDelete(arg.func, pre[i][2], pre[i][1],
                                           DeletedBefore(arg.func, pre, i))}
                IN  /\ ret.seen[j] = WithoutIndices(pre, gone, 1)
                    /\ Len(ret.seen[j]) = Len(pre) - ret.calls[j][3]

\* C24 witness: a pass over three entries whose second call found two
\* entries, which is neither the state before nor the state after the pass
C24_Witness ==
    /\ op = "deleteFunc"
    /\ Len(pre) = 3
    /\ Len(ret.seen[2]) = 2
    /\ ret.seen[2] # pre
    /\ ret.seen[2] # containor

\* whether the results of the callback let a pass of the method go on to
\* the end of the iteration
PassGoesOn ==
    \/ arg.method \in {"forEach", "filter", "partition"}
    \/ arg.method \in {"find", "some", "delete"} /\ ~arg.func.result
    \/ arg.method = "every" /\ arg.func.result

C26_FailureLeavesReceiver ==
    /\ op = "splice" /\ ret.threw /\ FirstNotIterable(arg.items, 1) # 0
          => containor = pre
    /\ op = "addMap" /\ ret.threw => containor = pre

\* C27: sort(comparator) only reorders: for a comparator that does not
\* change the container, the entries after the call are the entries before
\* it, as many as before, the object returned is the receiver, and the
\* order is the stable sort of the previous order: no entry comes before one
\* that compares smaller, and entries that compare equal keep the order
\* they had.
C27_SortOnlyReorders ==
    op = "sort" =>
        /\ ~ret.threw
        /\ ret.receiver
        /\ Len(containor) = Len(pre)
        /\ {containor[i] : i \in 1..Len(containor)} = {pre[i] : i \in 1..Len(pre)}
        /\ \A i, j \in 1..Len(containor) :
              i < j =>
                /\ Compare(arg.func, containor[i], containor[j]) <= 0
                /\ Compare(arg.func, containor[i], containor[j]) = 0
                      => MapIndex(pre, containor[i][1]) < MapIndex(pre, containor[j][1])

\* C27 witness: a sort by kind of key of three entries that moved the string
\* key behind the two other keys, which compare equal and kept their order
C27_Witness ==
    /\ op = "sort"
    /\ arg.func = "byKind"
    /\ Len(pre) = 3
    /\ isString(pre[1][1])
    /\ containor = <<pre[2], pre[3], pre[1]>>

====
